---- MODULE Spec2Model ----
(***************************************************************************)
(* Patient-resolution workflow of the dermatology patient portal:          *)
(* the browser pages (hub, demographics form), the client-side             *)
(* HealthieService, the /api/healthie/patient proxy route and the remote   *)
(* EHR GraphQL API it talks to.                                            *)
(*                                                                         *)
(* Strings that the code converts (emails) are sequences of one-character  *)
(* strings, so that toLowerCase() and trim() are computed, not assumed.    *)
(***************************************************************************)
EXTENDS Integers, Sequences, FiniteSets, TLC

\* ------------------------------------------------------------------ bounds
\* longest candidate list the remote keyword search returns
MaxCandidates == 2
\* number of patient records the remote creates in one behaviour
MaxCreated == 1

\* ------------------------------------------------------------ JS values
\* JavaScript null / undefined for an object-typed value
Null == [isNull |-> TRUE]
\* JavaScript null for a string-typed field (a remote user without email)
NullStr == <<"null">>
\* error state of a page: null, or the message set by setError
NoError == "none"

\* ------------------------------------------------------------- strings
LowerChar(c) ==
    IF c = "A" THEN "a" ELSE IF c = "B" THEN "b" ELSE c

\* String.prototype.toLowerCase
ToLower(s) == [i \in DOMAIN s |-> LowerChar(s[i])]

RECURSIVE TrimLeft(_)
TrimLeft(s) ==
    IF s = <<>> THEN s
    ELSE IF Head(s) = " " THEN TrimLeft(Tail(s)) ELSE s

RECURSIVE TrimRight(_)
TrimRight(s) ==
    IF s = <<>> THEN s
    ELSE IF s[Len(s)] = " " THEN TrimRight(SubSeq(s, 1, Len(s) - 1)) ELSE s

\* String.prototype.trim
Trim(s) == TrimRight(TrimLeft(s))

\* normalization that forgets toLowerCase
NormalizeEmailTrimOnly(email) == Trim(email)

\* email.toLowerCase().trim()
NormalizeEmail(email) == Trim(ToLower(email))

\* ------------------------------------------------------------- state
VARIABLES
    session,        \* AuthProvider: the session, or Null
    route,          \* the page shown: "login", "hub", "demographics"
    remoteUsers,    \* remote system: the user records that exist
    remoteIndexed,  \* remote system: ids its keyword search can see
    created,        \* remote system: number of records created so far
    hubPc,          \* HubPage effect: "none", "mounted", "lookup", "fetch", "done"
    hubPatient,     \* HubPage state: patient
    hubLoading,     \* HubPage state: isLoading
    hubError,       \* HubPage state: error
    hubForms,       \* HubPage: the promise of getFormsForPatient
    hubAppts,       \* HubPage: the promise of getUpcomingAppointments
    hubReply,       \* reply to the hub's lookup (Null before it arrives)
    hubOrigin,      \* what opened the hub: "login", "submit", "url"
    subPc,          \* onSubmit: "idle", "lookup1", "create", "lookup2", "update"
    subLoading,     \* DemographicsPage state: isLoading
    subError,       \* DemographicsPage state: error
    subPatient,     \* onSubmit: the local variable patient
    run,            \* record of the calls of the current or last onSubmit run
    lastLookup,     \* the last findPatientByEmail call of the page on screen
    apiKey,         \* the server's HEALTHIE_API_KEY (<<>> when not configured)
    clock,          \* Date.now(), in hours
    authOp,         \* the last AuthProvider call: signIn or signOut
    norm,           \* one application of the email normalization
    proxyCall       \* one HTTP request to a proxy endpoint and its remote call

\* ------------------------------------------------- remote GraphQL outcomes
\* What one call to the remote API can end in, as makeGraphQLRequest sees it:
\*   netfail  fetch() rejects (transport failure)
\*   http     a response with a non-2xx status
\*   gqlerr   a 2xx response whose body has an errors member
\*   data     a 2xx response with data
RemoteFailures ==
    { [kind |-> "netfail"], [kind |-> "http"], [kind |-> "gqlerr"] }

\* a configured API key, as a sequence of characters
KeyLen == 24
ServerKey == [i \in 1..KeyLen |-> "k"]

\* String.prototype.substring(0, n)
Substring(s, n) == SubSeq(s, 1, IF n < Len(s) THEN n ELSE Len(s))

\* the length of the key prefix makeGraphQLRequest logs
KeyPrefixLen == 20

\* what makeGraphQLRequest writes with console.log before it calls fetch():
\* a line is its label and the text of the value logged with it
RequestLog ==
    << [label |-> "Making GraphQL request to:", text |-> <<"HEALTHIE_API_URL">>],
       [label |-> "API Key length:", text |-> <<ToString(Len(apiKey))>>],
       [label |-> "API Key (first 20 chars):",
        text |-> Substring(apiKey, KeyPrefixLen)],
       [label |-> "Query:", text |-> <<"query">>],
       [label |-> "Variables:", text |-> <<"variables">>] >>

\* makeGraphQLRequest without the test of the API key
makeGraphQLRequestNoKeyTest(res) ==
    IF res.kind = "data"
    THEN [threw |-> FALSE, fetched |-> TRUE, data |-> res.data,
          log |-> RequestLog]
    ELSE [threw |-> TRUE, fetched |-> TRUE, data |-> Null,
          log |-> RequestLog]

\* makeGraphQLRequest of the proxy route: returns result.data or throws;
\* fetched tells whether fetch() was called. The fetch has no abort signal.
makeGraphQLRequest(res) ==
    IF apiKey = <<>>
    THEN [threw |-> TRUE, fetched |-> FALSE, data |-> Null, log |-> <<>>]
    ELSE IF res.kind = "data"
    THEN [threw |-> FALSE, fetched |-> TRUE, data |-> res.data,
          log |-> RequestLog]
    ELSE [threw |-> TRUE, fetched |-> TRUE, data |-> Null,
          log |-> RequestLog]

\* -------------------------------------------------------- proxy: GET
\* usersData.users.find(u => u.email.toLowerCase() === normalizedEmail):
\* the candidates are examined in order; the callback throws a TypeError on
\* a candidate whose email is null; the first match ends the search.
RECURSIVE FindUser(_, _)
FindUser(users, normalizedEmail) ==
    IF users = <<>> THEN [threw |-> FALSE, user |-> Null]
    ELSE IF Head(users).email = NullStr THEN [threw |-> TRUE, user |-> Null]
    ELSE IF ToLower(Head(users).email) = normalizedEmail
         THEN [threw |-> FALSE, user |-> Head(users)]
         ELSE FindUser(Tail(users), normalizedEmail)

\* the patientData object built from a remote user
PatientOfUser(user) ==
    [id |-> user.id, firstName |-> user.first_name, email |-> user.email]

\* ErrorResponse with the start of the API key put into the error string
ErrorResponseWithKey(status, msg) ==
    [status |-> status,
     body |-> [error |-> <<msg>> \o Substring(apiKey, KeyPrefixLen)]]

\* NextResponse.json({ error: msg }, { status }); the error string is kept
\* as the sequence of its pieces
ErrorResponse(status, msg) ==
    [status |-> status, body |-> [error |-> <<msg>>]]

\* messages.map(msg => `${msg.field}: ${msg.message}`).join(', ')
RECURSIVE MessagesText(_)
MessagesText(messages) ==
    IF messages = <<>> THEN <<>>
    ELSE << Head(messages).field, ": ", Head(messages).message >>
         \o (IF Tail(messages) = <<>> THEN <<>> ELSE <<", ">>)
         \o MessagesText(Tail(messages))

\* NextResponse.json({ error: `Validation errors: ${errors}` }, { status: 400 })
ValidationResponse(messages) ==
    [status |-> 400,
     body |-> [error |-> <<"Validation errors: ">> \o MessagesText(messages)]]

\* the variables of the FindUserByEmail query
LookupVariables(email) == [email |-> NormalizeEmail(email)]

\* ProxyGET without the test of the email parameter
ProxyGETNoEmailTest(email, res) ==
    LET normalizedEmail == NormalizeEmail(email)
        usersData == makeGraphQLRequest(res)
    IN IF usersData.threw
       THEN ErrorResponse(500, "Failed to find patient")
       ELSE IF Len(usersData.data.users) > 0
       THEN LET f == FindUser(usersData.data.users, normalizedEmail)
            IN IF f.threw
               THEN ErrorResponse(500, "Failed to find patient")
               ELSE IF f.user # Null
               THEN [status |-> 200,
                     body |-> [patient |-> PatientOfUser(f.user)]]
               ELSE [status |-> 200, body |-> [patient |-> Null]]
       ELSE [status |-> 200, body |-> [patient |-> Null]]

\* GET /api/healthie/patient?email=...
ProxyGET(email, res) ==
    IF email = <<>>
    THEN ErrorResponse(400, "Email parameter is required")
    ELSE LET normalizedEmail == NormalizeEmail(email)
             usersData == makeGraphQLRequest(res)
         IN IF usersData.threw
            THEN ErrorResponse(500, "Failed to find patient")
            ELSE IF Len(usersData.data.users) > 0
            THEN LET f == FindUser(usersData.data.users, normalizedEmail)
                 IN IF f.threw
                    THEN ErrorResponse(500, "Failed to find patient")
                    ELSE IF f.user # Null
                    THEN [status |-> 200,
                          body |-> [patient |-> PatientOfUser(f.user)]]
                    ELSE [status |-> 200, body |-> [patient |-> Null]]
            ELSE [status |-> 200, body |-> [patient |-> Null]]

\* -------------------------------------------------------- proxy: POST
\* the createClient input built from the request body
CreateVariables(body) ==
    [email |-> NormalizeEmail(body.email),
     first_name |-> body.firstName,
     last_name |-> body.lastName]

\* ProxyPOST looking at the user before the messages
ProxyPOSTUserFirst(body, res) ==
    IF body.email = <<>> \/ body.password = "" \/ body.firstName = ""
       \/ body.lastName = ""
    THEN ErrorResponse(400, "Missing required fields")
    ELSE LET r == makeGraphQLRequest(res)
         IN IF r.threw
            THEN ErrorResponse(500, "Failed to create patient")
            ELSE IF r.data.createClient.user # Null
            THEN [status |-> 200,
                  body |-> PatientOfUser(r.data.createClient.user)]
            ELSE IF Len(r.data.createClient.messages) > 0
            THEN ValidationResponse(r.data.createClient.messages)
            ELSE ErrorResponse(500, "Failed to create patient")

\* POST /api/healthie/patient
ProxyPOST(body, res) ==
    IF body.email = <<>> \/ body.password = "" \/ body.firstName = ""
       \/ body.lastName = ""
    THEN ErrorResponse(400, "Missing required fields")
    ELSE LET r == makeGraphQLRequest(res)
         IN IF r.threw
            THEN ErrorResponse(500, "Failed to create patient")
            ELSE IF Len(r.data.createClient.messages) > 0
            THEN ValidationResponse(r.data.createClient.messages)
            ELSE IF r.data.createClient.user = Null
            THEN ErrorResponse(500, "Failed to create patient")
            ELSE [status |-> 200,
                  body |-> PatientOfUser(r.data.createClient.user)]

\* -------------------------------------------------------- proxy: PATCH
\* the updateUser input built from the request body: insurance is not sent
UpdateVariables(body) ==
    [id |-> body.id, dob |-> body.demographics.dob,
     sex |-> body.demographics.sexAtBirth]

\* PATCH /api/healthie/patient
ProxyPATCH(body, res) ==
    IF body.id = 0 \/ body.demographics = Null
    THEN ErrorResponse(400, "Missing required fields")
    ELSE LET r == makeGraphQLRequest(res)
         IN IF r.threw
            THEN ErrorResponse(500, "Failed to update patient demographics")
            ELSE IF Len(r.data.updateUser.messages) > 0
            THEN ValidationResponse(r.data.updateUser.messages)
            ELSE IF r.data.updateUser.user = Null
            THEN ErrorResponse(500, "Failed to update patient demographics")
            ELSE [status |-> 200,
                  body |-> PatientOfUser(r.data.updateUser.user)]

\* ------------------------------------- proxy: forms and appointments
\* new HealthieServerService(): throws when the API key is missing
HealthieServerService == [threw |-> apiKey = <<>>]

\* HealthieServerService.getFormsForPatient / getUpcomingAppointments:
\* no remote call yet, an empty list
ServerGetFormsForPatient(patientId) == <<>>
ServerGetUpcomingAppointments(patientId) == <<>>

\* GET /api/healthie/forms?patientId=... (0: no patientId)
ProxyFormsGET(patientId) ==
    IF patientId = 0
    THEN ErrorResponse(400, "Patient ID parameter is required")
    ELSE IF HealthieServerService.threw
    THEN ErrorResponse(500, "Failed to fetch forms")
    ELSE [status |-> 200,
          body |-> [forms |-> ServerGetFormsForPatient(patientId)]]

\* GET /api/healthie/appointments?patientId=...
ProxyAppointmentsGET(patientId) ==
    IF patientId = 0
    THEN ErrorResponse(400, "Patient ID parameter is required")
    ELSE IF HealthieServerService.threw
    THEN ErrorResponse(500, "Failed to fetch appointments")
    ELSE [status |-> 200,
          body |-> [appointments |-> ServerGetUpcomingAppointments(patientId)]]

\* -------------------------------------------------- proxy: test route
\* what console.log writes in the test route before its test of the key
TestLog ==
    << [label |-> "Testing GraphQL connection...", text |-> <<>>],
       [label |-> "API URL:", text |-> <<"HEALTHIE_API_URL">>],
       [label |-> "API Key exists:", text |-> <<ToString(apiKey # <<>>)>>] >>

\* GET of the test route: the remote's status, error text and errors are
\* pieces of text the remote chose
TestGET(res) ==
    IF apiKey = <<>>
    THEN ErrorResponse(500, "No API key available")
    ELSE IF res.kind = "netfail"
    THEN [status |-> 500, body |-> [error |-> <<"Test failed: ", "error">>]]
    ELSE IF res.kind = "http"
    THEN [status |-> 500,
          body |-> [error |-> <<"API error: ", "status", " - ", "errorText">>]]
    ELSE IF res.kind = "gqlerr"
    THEN [status |-> 500,
          body |-> [error |-> <<"GraphQL errors: ", "errors">>]]
    ELSE [status |-> 200,
          body |-> [success |-> TRUE, data |-> res.data, userCount |-> 0]]

\* ------------------------------------------------ browser-side service
\* encodeURIComponent: a space becomes the escape %20
EncodeURIComponent(s) ==
    [i \in DOMAIN s |-> IF s[i] = " " THEN "%20" ELSE s[i]]

\* URLSearchParams.get: escapes and "+" are decoded
SearchParamsGet(s) ==
    [i \in DOMAIN s |-> IF s[i] \in { "%20", "+" } THEN " " ELSE s[i]]

\* the browser's fetch() to a proxy route rejected (no response at all)
FetchRejected == [status |-> 0, body |-> Null]

\* Response.ok
ResponseOk(reply) == reply.status >= 200 /\ reply.status <= 299

\* One network exchange as the environment decides it: whether the browser's
\* fetch reaches the proxy at all, and what the remote API answers the proxy.
\* LookupReply is what fetch('/api/healthie/patient?email=...') resolves to
\* for the normalized email the service puts in the URL.
LookupReply(normalizedEmail, net) ==
    IF net.reached
    THEN ProxyGET(SearchParamsGet(EncodeURIComponent(normalizedEmail)),
                  net.res)
    ELSE FetchRejected

\* findPatientByEmail with the test of response.ok inverted
findPatientByEmailNotOk(email, net) ==
    LET normalizedEmail == NormalizeEmail(email)
        response == LookupReply(normalizedEmail, net)
    IN IF response = FetchRejected THEN Null
       ELSE IF ~ResponseOk(response)
            THEN IF "patient" \in DOMAIN response.body
                 THEN response.body.patient ELSE Null
       ELSE Null

\* HealthieService.findPatientByEmail
findPatientByEmail(email, net) ==
    LET normalizedEmail == NormalizeEmail(email)
        response == LookupReply(normalizedEmail, net)
    IN IF response = FetchRejected THEN Null
       ELSE IF ResponseOk(response) THEN response.body.patient
       ELSE Null

CreateReply(input, net) ==
    IF net.reached THEN ProxyPOST(input, net.res) ELSE FetchRejected

\* createPatient logging the failure instead of throwing it
createPatientSwallow(input, net) ==
    LET response == CreateReply(input, net)
    IN IF response = FetchRejected
       THEN [threw |-> FALSE, id |-> 0, error |-> <<>>]
       ELSE IF ~ResponseOk(response)
       THEN [threw |-> FALSE, id |-> 0, error |-> <<>>]
       ELSE [threw |-> FALSE, id |-> response.body.id, error |-> <<>>]

\* HealthieService.createPatient: the error it throws carries the status of
\* the response and nothing of its body
createPatient(input, net) ==
    LET response == CreateReply(input, net)
    IN IF response = FetchRejected
       THEN [threw |-> TRUE, id |-> 0, error |-> <<"TypeError: fetch failed">>]
       ELSE IF ~ResponseOk(response)
       THEN [threw |-> TRUE, id |-> 0,
             error |-> << "Failed to create patient: ",
                          ToString(response.status) >>]
       ELSE [threw |-> FALSE, id |-> response.body.id, error |-> <<>>]

UpdateReply(id, data, net) ==
    IF net.reached
    THEN ProxyPATCH([id |-> id, demographics |-> data], net.res)
    ELSE FetchRejected

\* HealthieService.updatePatientDemographics
updatePatientDemographics(id, data, net) ==
    LET response == UpdateReply(id, data, net)
    IN IF response = FetchRejected
       THEN [threw |-> TRUE, error |-> <<"TypeError: fetch failed">>]
       ELSE IF ~ResponseOk(response)
       THEN [threw |-> TRUE,
             error |-> << "Failed to update demographics: ",
                          ToString(response.status) >>]
       ELSE [threw |-> FALSE, error |-> <<>>]

\* HealthieService.getFormsForPatient / getUpcomingAppointments: the server
\* service returns [] and every failure is turned into [] as well
getFormsForPatient(id) == <<>>

getUpcomingAppointments(id) == <<>>

\* ------------------------------------------------------------ inputs
\* what a user types into the login form
RawEmails == { <<"A">>, <<"b", " ">> }

\* records the remote system may hold before the portal is used
UserPool ==
    { [id |-> 101, email |-> <<"A">>, first_name |-> "Jane"],
      [id |-> 103, email |-> NullStr, first_name |-> "Nil"] }

\* a demographics form that passed demographicsSchema
DemoData ==
    [firstName |-> "New", lastName |-> "Patient", dob |-> "1990-01-01",
     sexAtBirth |-> "female", insuranceProvider |-> "Aetna",
     insuranceMemberId |-> "M1"]

\* a field-level message of the remote API
ValidationMessage == [field |-> "email", message |-> "is invalid"]

vars ==
    << session, route, remoteUsers, remoteIndexed, created, hubPc,
       hubPatient, hubLoading, hubError, hubForms, hubAppts, hubReply,
       hubOrigin, subPc, subLoading, subError, subPatient, run, lastLookup,
       apiKey, clock, authOp, norm, proxyCall >>

remoteVars == << remoteUsers, remoteIndexed, created >>
hubVars ==
    << hubPc, hubPatient, hubLoading, hubError, hubForms, hubAppts,
       hubReply, hubOrigin >>
subVars == << subPc, subLoading, subError, subPatient, run >>
envVars == << apiKey, clock, norm, proxyCall >>

\* AuthContext value: isAuthenticated = !!session
IsAuthenticated == session # Null

\* AuthContext value: email = session?.email || null
SessionEmail == IF session = Null THEN <<>> ELSE session.email

\* no onSubmit run has made a call yet
NoRun ==
    [started |-> FALSE, ended |-> FALSE, lookup1 |-> Null,
     createNet |-> Null, createSent |-> Null, create |-> Null,
     lookup2 |-> Null, postCreateLookups |-> 0,
     updateNet |-> Null, update |-> Null, updateId |-> 0,
     navigated |-> FALSE, outstanding |-> 0, retry |-> FALSE]

\* the run that ended had its create answered with success and its update
\* with a failure: the next submission is the retry of a half-done creation
\* (run.retry marks that submission while it is in progress)
HalfDone(r) ==
    /\ r.ended
    /\ r.create # Null
    /\ r.create.status \in 200..299
    /\ r.update # Null
    /\ r.update.status \notin 200..299

\* onSubmit sends a request / receives the answer to one
Issued(r) == [r EXCEPT !.outstanding = @ + 1]
Answered(r) == [r EXCEPT !.outstanding = @ - 1]

\* one findPatientByEmail call: its argument, the exchange it met, the reply
\* to its fetch and the value it returned
LookupRecord(email, net) ==
    [email |-> email, net |-> net,
     sent |-> IF net.reached /\ makeGraphQLRequest(net.res).fetched
              THEN LookupVariables(
                     SearchParamsGet(EncodeURIComponent(NormalizeEmail(email))))
              ELSE Null,
     reply |-> LookupReply(NormalizeEmail(email), net),
     returned |-> findPatientByEmail(email, net)]

\* ------------------------------------------------- the remote system
RECURSIVE SeqsOver(_, _)
\* the sequences of n distinct elements of S
SeqsOver(S, n) ==
    IF n = 0 THEN { <<>> }
    ELSE UNION { { <<x>> \o t : t \in SeqsOver(S \ {x}, n - 1) } : x \in S }

\* A keyword search is not an exact match: it answers with any list of
\* indexed records, or fails.
SearchOutcomes ==
    LET visible == { u \in remoteUsers : u.id \in remoteIndexed }
    IN RemoteFailures \cup
       { [kind |-> "data", data |-> [users |-> l]] :
           l \in UNION { SeqsOver(visible, n) : n \in 0..MaxCandidates } }

\* the record a createClient mutation would create
NewUser(input) ==
    [id |-> created + 1, email |-> input.email, first_name |-> input.first_name]

\* createClient answers with a user, with messages, with both or with neither
CreateOutcomes(input) ==
    RemoteFailures \cup
    { [kind |-> "data",
       data |-> [createClient |-> [user |-> u, messages |-> m]]] :
         u \in { Null } \cup (IF created < MaxCreated
                              THEN { NewUser(input) } ELSE {}),
         m \in { <<>>, <<ValidationMessage>> } }

\* updateUser answers likewise, for the record with that id if there is one
UpdateOutcomes(input) ==
    RemoteFailures \cup
    { [kind |-> "data",
       data |-> [updateUser |-> [user |-> u, messages |-> m]]] :
         u \in { Null } \cup { r \in remoteUsers : r.id = input.id },
         m \in { <<>>, <<ValidationMessage>> } }

\* the exchanges the environment can produce for a set of remote outcomes
Exchanges(outcomes) ==
    { [reached |-> TRUE, res |-> o] : o \in outcomes }
    \cup { [reached |-> FALSE, res |-> [kind |-> "netfail"]] }

\* the search index catches up with a record
RemoteIndex ==
    /\ \E u \in remoteUsers :
         /\ u.id \notin remoteIndexed
         /\ remoteIndexed' = remoteIndexed \cup { u.id }
    /\ UNCHANGED << session, route, remoteUsers, created, hubVars, subVars,
                    lastLookup >>
    /\ UNCHANGED << envVars, authOp >>

\* ------------------------------------------------------- initial state
\* process.env.HEALTHIE_API_KEY || '': not configured, or configured
ApiKeys == { <<>>, ServerKey }

\* a promise that has not settled / that resolved to v
Pending == [settled |-> FALSE, value |-> <<>>]
Resolved(v) == [settled |-> TRUE, value |-> v]

\* no AuthProvider call has been made / no normalization is being applied
NoOp == [op |-> "none", email |-> <<>>, at |-> 0]
NormIdle ==
    [pc |-> "idle", x |-> <<>>, y |-> <<>>,
     stored |-> <<>>, client |-> <<>>, proxy |-> <<>>, other |-> <<>>]

\* no request to a proxy endpoint is being followed
NoCall ==
    [pc |-> "idle", endpoint |-> "none", input |-> Null, fetched |-> FALSE,
     hung |-> FALSE, res |-> Null, log |-> <<>>, reply |-> Null]

\* the portal right after its first page load: no session, login page
InitPages ==
    /\ session = Null
    /\ route = "login"
    /\ hubPc = "none"
    /\ hubPatient = Null
    /\ hubLoading = TRUE
    /\ hubError = NoError
    /\ hubForms = Pending
    /\ hubAppts = Pending
    /\ hubReply = Null
    /\ hubOrigin = "none"
    /\ subPc = "idle"
    /\ subLoading = FALSE
    /\ subError = NoError
    /\ subPatient = Null
    /\ run = NoRun
    /\ lastLookup = Null
    /\ authOp = NoOp

Init ==
    /\ InitPages
    /\ remoteUsers \in SUBSET UserPool
    /\ remoteIndexed = { u.id : u \in remoteUsers }
    /\ created = 0
    /\ apiKey \in ApiKeys
    /\ clock = 0
    /\ norm = NormIdle
    /\ proxyCall = NoCall

\* ------------------------------------------------------ page mounting
\* HubPage mounts with its useState defaults; its effect has not run yet
MountHub(origin) ==
    /\ hubPc' = "mounted"
    /\ hubPatient' = Null
    /\ hubLoading' = TRUE
    /\ hubError' = NoError
    /\ hubForms' = Pending
    /\ hubAppts' = Pending
    /\ hubReply' = Null
    /\ hubOrigin' = origin

\* HubPage is not on screen
UnmountHub ==
    /\ hubPc' = "none"
    /\ UNCHANGED << hubPatient, hubLoading, hubError, hubForms, hubAppts,
                    hubReply, hubOrigin >>

\* HubPage is gone and so is its state
DiscardHub ==
    /\ hubPc' = "none"
    /\ hubPatient' = Null
    /\ hubLoading' = TRUE
    /\ hubError' = NoError
    /\ hubForms' = Pending
    /\ hubAppts' = Pending
    /\ hubReply' = Null
    /\ hubOrigin' = "none"

\* DemographicsPage mounts with its useState defaults
MountDemographics ==
    /\ subPc' = "idle"
    /\ subLoading' = FALSE
    /\ subError' = NoError
    /\ subPatient' = Null
    /\ run' = NoRun

\* ------------------------------------------------------------ session
\* the session lifetime, in hours: 24 * 60 * 60 * 1000 ms
SessionTTL == 24

\* signIn storing the email as typed
signInAsTyped(email, now) ==
    [email |-> email, expiresAt |-> now + SessionTTL]

\* signIn adding the lifetime in seconds to a time in milliseconds
signInSeconds(email, now) ==
    [email |-> NormalizeEmail(email),
     expiresAt |-> now + (SessionTTL \div 1000)]

\* AuthProvider.signIn: the session it installs (sessionId is never read)
signIn(email, now) ==
    [email |-> NormalizeEmail(email), expiresAt |-> now + SessionTTL]

\* AuthProvider.signOut: the session it installs
signOut == Null

\* The login page: sign in with what was typed, then open the hub, which
\* resolves the patient. One loadPatientData is followed at a time: a sign-in
\* comes after the loadPatientData of a hub that was left has ended.
Login ==
    /\ route = "login"
    /\ hubPc \notin { "lookup", "fetch" }
    /\ \E raw \in RawEmails :
         /\ session' = signIn(raw, clock)
         /\ authOp' = [op |-> "signIn", email |-> raw, at |-> clock]
    /\ route' = "hub"
    /\ MountHub("login")
    /\ lastLookup' = Null
    /\ UNCHANGED << remoteVars, subVars, envVars >>

\* A full page load of one of the portal's URLs (typed address, reload):
\* the in-memory session and every page state are gone.
BrowserLoad ==
    /\ \E page \in { "login", "hub", "demographics", "forms", "schedule" } :
         /\ route' = page
         /\ IF page = "hub" THEN MountHub("url") ELSE DiscardHub
    /\ session' = Null
    /\ authOp' = NoOp
    /\ MountDemographics
    /\ lastLookup' = Null
    /\ UNCHANGED << remoteVars, envVars >>

\* ---------------------------------------------------------- hub page
\* what HubPage renders
HubView ==
    IF hubLoading THEN "spinner"
    ELSE IF hubError # NoError THEN "error"
    ELSE IF hubPatient = Null THEN "blank"
    ELSE "dashboard"

\* useEffect: loadPatientData up to its first await
HubEffect ==
    /\ route = "hub"
    /\ hubPc = "mounted"
    /\ IF SessionEmail = <<>>
       THEN /\ route' = "login"
            /\ hubPc' = "done"
            /\ UNCHANGED << hubLoading, hubError >>
       ELSE /\ hubLoading' = TRUE
            /\ hubError' = NoError
            /\ hubPc' = "lookup"
            /\ route' = route
    /\ UNCHANGED << session, remoteVars, hubPatient, hubForms, hubAppts,
                    hubReply, hubOrigin, subVars, lastLookup >>
    /\ UNCHANGED << envVars, authOp >>

\* The browser's back button on the hub that was opened from the login
\* page, while loadPatientData is waiting: a client-side navigation, so the
\* session stays and HubPage unmounts. The effect returns no cleanup
\* function, so loadPatientData goes on.
BrowserBack ==
    /\ route = "hub"
    /\ hubOrigin = "login"
    /\ hubPc \in { "lookup", "fetch" }
    /\ route' = "login"
    /\ UNCHANGED << session, remoteVars, hubVars, subVars, lastLookup,
                    envVars, authOp >>

\* loadPatientData from the answer of findPatientByEmail to Promise.all;
\* nothing in it asks whether HubPage is still on screen
HubLookupDone ==
    /\ hubPc = "lookup"
    /\ \E net \in Exchanges(SearchOutcomes) :
         LET patientData == findPatientByEmail(SessionEmail, net)
         IN /\ hubReply' = LookupReply(NormalizeEmail(SessionEmail), net)
            /\ lastLookup' = LookupRecord(SessionEmail, net)
            /\ IF patientData = Null
               THEN /\ route' = "demographics"
                    /\ MountDemographics
                    /\ hubLoading' = FALSE
                    /\ hubPc' = "done"
                    /\ UNCHANGED hubPatient
               ELSE /\ hubPatient' = patientData
                    /\ hubPc' = "fetch"
                    /\ UNCHANGED << route, hubLoading, subVars >>
    /\ UNCHANGED << session, remoteVars, hubError, hubForms, hubAppts,
                    hubOrigin >>
    /\ UNCHANGED << envVars, authOp >>

\* loadPatientData resumed by the forms fetch alone (Promise.race)
HubFormsDoneRace ==
    /\ hubPc = "fetch"
    /\ ~hubForms.settled
    /\ hubForms' = Resolved(getFormsForPatient(hubPatient.id))
    /\ hubLoading' = FALSE
    /\ hubPc' = "done"
    /\ UNCHANGED << session, route, remoteVars, hubPatient, hubError,
                    hubAppts, hubReply, hubOrigin, subVars,
                    lastLookup >>
    /\ UNCHANGED << envVars, authOp >>

\* the forms fetch settles; Promise.all resumes loadPatientData when both did
HubFormsDone ==
    /\ hubPc = "fetch"
    /\ ~hubForms.settled
    /\ hubForms' = Resolved(getFormsForPatient(hubPatient.id))
    /\ IF hubAppts.settled
       THEN hubLoading' = FALSE /\ hubPc' = "done"
       ELSE UNCHANGED << hubLoading, hubPc >>
    /\ UNCHANGED << session, route, remoteVars, hubPatient, hubError,
                    hubAppts, hubReply, hubOrigin, subVars,
                    lastLookup >>
    /\ UNCHANGED << envVars, authOp >>

\* the appointments fetch settles
HubApptsDone ==
    /\ hubPc = "fetch"
    /\ ~hubAppts.settled
    /\ hubAppts' = Resolved(getUpcomingAppointments(hubPatient.id))
    /\ IF hubForms.settled
       THEN hubLoading' = FALSE /\ hubPc' = "done"
       ELSE UNCHANGED << hubLoading, hubPc >>
    /\ UNCHANGED << session, route, remoteVars, hubPatient, hubError,
                    hubForms, hubReply, hubOrigin, subVars,
                    lastLookup >>
    /\ UNCHANGED << envVars, authOp >>

\* handleSignOut, offered by the dashboard header
HubSignOut ==
    /\ route = "hub"
    /\ HubView = "dashboard"
    /\ session' = signOut
    /\ authOp' = [op |-> "signOut", email |-> <<>>, at |-> 0]
    /\ route' = "login"
    /\ UnmountHub
    /\ UNCHANGED << remoteVars, subVars, lastLookup, envVars >>

\* the dashboard's "Schedule" buttons: router.push('/schedule')
HubGoSchedule ==
    /\ route = "hub"
    /\ HubView = "dashboard"
    /\ route' = "schedule"
    /\ DiscardHub
    /\ MountDemographics
    /\ lastLookup' = Null
    /\ UNCHANGED << session, remoteVars, envVars, authOp >>

\* ------------------------------------------- forms and schedule pages
\* FormsPage and SchedulePage render without looking at the session; their
\* "Back to Hub" buttons run router.push('/hub')
PageBackToHub ==
    /\ route \in { "forms", "schedule" }
    /\ route' = "hub"
    /\ MountHub("nav")
    /\ lastLookup' = Null
    /\ UNCHANGED << session, remoteVars, subVars, envVars, authOp >>

\* SchedulePage's "Sign Out" button: router.push('/login') and nothing else
ScheduleToLogin ==
    /\ route = "schedule"
    /\ route' = "login"
    /\ UNCHANGED << session, remoteVars, hubVars, subVars, lastLookup,
                    envVars, authOp >>

\* -------------------------------------------------- demographics page
\* the message onSubmit's catch block shows
SubmitErrorMsg == "An error occurred while saving your information"

\* the argument of createPatient in onSubmit
CreateInput(email, data) ==
    [email |-> email, password |-> "temp-password",
     firstName |-> data.firstName, lastName |-> data.lastName]

\* the argument of updatePatientDemographics in onSubmit
DemographicsOf(data) ==
    [dob |-> data.dob, sexAtBirth |-> data.sexAtBirth,
     insurance |-> [provider |-> data.insuranceProvider,
                    memberId |-> data.insuranceMemberId]]

\* onSubmit's catch block without the finally block
SubmitFailedNoFinally ==
    /\ subError' = SubmitErrorMsg
    /\ subPc' = "idle"
    /\ UNCHANGED subLoading

\* onSubmit's catch and finally blocks
SubmitFailed ==
    /\ subError' = SubmitErrorMsg
    /\ subLoading' = FALSE
    /\ subPc' = "idle"

\* the "Back to Login" button of the form (disabled while loading)
DemoBackToLogin ==
    /\ route = "demographics"
    /\ ~subLoading
    /\ route' = "login"
    /\ UNCHANGED << session, remoteVars, hubVars, subVars,
                    lastLookup >>
    /\ UNCHANGED << envVars, authOp >>

\* onSubmit with a submit button that is never disabled
SubmitStartAnyTime ==
    /\ route = "demographics"
    /\ SessionEmail # <<>>
    /\ IF SessionEmail = <<>>
       THEN /\ subError' = "No email found in session"
            /\ UNCHANGED << subPc, subLoading, subPatient, run >>
       ELSE /\ subLoading' = TRUE
            /\ subError' = NoError
            /\ subPc' = "lookup1"
            /\ subPatient' = Null
            /\ run' = Issued([NoRun EXCEPT !.started = TRUE,
                                       !.outstanding = run.outstanding,
                                       !.retry = HalfDone(run)])
    /\ UNCHANGED << session, route, remoteVars, hubVars, lastLookup >>
    /\ UNCHANGED << envVars, authOp >>

\* onSubmit up to its first await; the form is rendered only with an email
SubmitStart ==
    /\ route = "demographics"
    /\ SessionEmail # <<>>
    /\ ~subLoading
    /\ subPc = "idle"
    /\ IF SessionEmail = <<>>
       THEN /\ subError' = "No email found in session"
            /\ UNCHANGED << subPc, subLoading, subPatient, run >>
       ELSE /\ subLoading' = TRUE
            /\ subError' = NoError
            /\ subPc' = "lookup1"
            /\ subPatient' = Null
            /\ run' = Issued([NoRun EXCEPT !.started = TRUE,
                                       !.outstanding = run.outstanding,
                                       !.retry = HalfDone(run)])
    /\ UNCHANGED << session, route, remoteVars, hubVars, lastLookup >>
    /\ UNCHANGED << envVars, authOp >>

\* onSubmit from the answer of the first findPatientByEmail to the next await
SubmitLookup1Done ==
    /\ route = "demographics"
    /\ subPc = "lookup1"
    /\ \E net \in Exchanges(SearchOutcomes) :
         LET patient == findPatientByEmail(SessionEmail, net)
         IN /\ subPatient' = patient
            /\ lastLookup' = LookupRecord(SessionEmail, net)
            /\ run' = Issued(Answered([run EXCEPT !.lookup1 =
                          LookupReply(NormalizeEmail(SessionEmail), net)]))
            /\ subPc' = IF patient = Null THEN "create" ELSE "update"
    /\ UNCHANGED << session, route, remoteVars, hubVars, subLoading,
                    subError >>
    /\ UNCHANGED << envVars, authOp >>

\* what a createClient outcome leaves in the remote system: a user answered
\* without messages exists; one answered together with messages may exist
CreateEffect(net, persisted) ==
    IF /\ net.reached
       /\ net.res.kind = "data"
       /\ net.res.data.createClient.user # Null
       /\ (net.res.data.createClient.messages = <<>> \/ persisted)
    THEN /\ remoteUsers' = remoteUsers \cup { net.res.data.createClient.user }
         /\ created' = created + 1
         /\ UNCHANGED remoteIndexed
    ELSE UNCHANGED remoteVars

\* onSubmit from the answer of createPatient to the next await
SubmitCreateDone ==
    /\ route = "demographics"
    /\ subPc = "create"
    /\ LET input == CreateInput(SessionEmail, DemoData)
       IN \E net \in Exchanges(CreateOutcomes(CreateVariables(input))),
             persisted \in BOOLEAN :
            /\ CreateEffect(net, persisted)
            /\ IF createPatient(input, net).threw
               THEN /\ SubmitFailed
                    /\ run' = Answered([run EXCEPT
                                  !.createNet = net,
                                  !.createSent =
                                      IF net.reached
                                         /\ makeGraphQLRequest(net.res).fetched
                                      THEN CreateVariables(input) ELSE Null,
                                  !.create = CreateReply(input, net),
                                  !.ended = TRUE, !.retry = FALSE])
               ELSE /\ subPc' = "lookup2"
                    /\ run' = Issued(Answered([run EXCEPT
                                  !.createNet = net,
                                  !.createSent =
                                      IF net.reached
                                         /\ makeGraphQLRequest(net.res).fetched
                                      THEN CreateVariables(input) ELSE Null,
                                  !.create = CreateReply(input, net)]))
                    /\ UNCHANGED << subLoading, subError >>
    /\ UNCHANGED << session, route, hubVars, subPatient,
                    lastLookup >>
    /\ UNCHANGED << envVars, authOp >>

\* onSubmit from the answer of the second findPatientByEmail to the next await
SubmitLookup2Done ==
    /\ route = "demographics"
    /\ subPc = "lookup2"
    /\ \E net \in Exchanges(SearchOutcomes) :
         LET patient == findPatientByEmail(SessionEmail, net)
             seen == Answered([run EXCEPT !.lookup2 =
                         LookupReply(NormalizeEmail(SessionEmail), net),
                      !.postCreateLookups = @ + 1])
         IN /\ subPatient' = patient
            /\ lastLookup' = LookupRecord(SessionEmail, net)
            /\ IF patient = Null
               THEN /\ SubmitFailed
                    /\ run' = [seen EXCEPT !.ended = TRUE, !.retry = FALSE]
               ELSE /\ subPc' = "update"
                    /\ run' = Issued(seen)
                    /\ UNCHANGED << subLoading, subError >>
    /\ UNCHANGED << session, route, remoteVars, hubVars >>
    /\ UNCHANGED << envVars, authOp >>

\* onSubmit from the answer of updatePatientDemographics to its end
SubmitUpdateDone ==
    /\ route = "demographics"
    /\ subPc = "update"
    /\ LET data == DemographicsOf(DemoData)
           body == [id |-> subPatient.id, demographics |-> data]
       IN \E net \in Exchanges(UpdateOutcomes(UpdateVariables(body))) :
            LET seen == Answered([run EXCEPT !.updateNet = net,
                         !.update = UpdateReply(subPatient.id, data, net),
                         !.updateId = subPatient.id,
                         !.ended = TRUE, !.retry = FALSE])
            IN IF updatePatientDemographics(subPatient.id, data, net).threw
               THEN /\ SubmitFailed
                    /\ run' = seen
                    /\ UNCHANGED << route, hubVars >>
               ELSE /\ route' = "hub"
                    /\ MountHub("submit")
                    /\ run' = [seen EXCEPT !.navigated = TRUE]
                    /\ subLoading' = FALSE
                    /\ subPc' = "idle"
                    /\ UNCHANGED subError
    /\ UNCHANGED << session, remoteVars, subPatient, lastLookup >>
    /\ UNCHANGED << envVars, authOp >>

\* the call onSubmit is awaiting is never answered: the remote API accepted
\* the proxy's request and stays silent, and no timer ends the wait
SubmitRemoteHangs ==
    /\ route = "demographics"
    /\ subPc \in { "lookup1", "create", "lookup2", "update" }
    /\ subPc' = "hung"
    /\ UNCHANGED << session, route, remoteVars, hubVars, subLoading, subError,
                    subPatient, run, lastLookup >>
    /\ UNCHANGED << envVars, authOp >>

\* onSubmit resumes from the call it is awaiting
SubmitAnswers ==
    \/ SubmitLookup1Done
    \/ SubmitCreateDone
    \/ SubmitLookup2Done
    \/ SubmitUpdateDone

\* ------------------------------------------------------ specification
Next ==
    \/ Login
    \/ BrowserLoad
    \/ HubEffect
    \/ BrowserBack
    \/ HubLookupDone
    \/ HubFormsDone
    \/ HubApptsDone
    \/ HubSignOut
    \/ HubGoSchedule
    \/ PageBackToHub
    \/ ScheduleToLogin
    \/ DemoBackToLogin
    \/ SubmitStart
    \/ SubmitLookup1Done
    \/ SubmitCreateDone
    \/ SubmitLookup2Done
    \/ SubmitUpdateDone
    \/ SubmitRemoteHangs
    \/ RemoteIndex

Spec == Init /\ [][Next]_vars

\* ------------------------------------------ the session context alone
\* The AuthProvider on its own: signIn and signOut called in any order while
\* time passes; no page acts and the remote system is empty.
MaxClock == 26

\* what a caller can pass to signIn as the email
AuthEmails == RawEmails \cup { <<" ">> }

portalVars ==
    << route, remoteUsers, remoteIndexed, created, hubPc, hubPatient,
       hubLoading, hubError, hubForms, hubAppts, hubReply, hubOrigin,
       subPc, subLoading, subError, subPatient, run, lastLookup >>

AuthInit ==
    /\ InitPages
    /\ remoteUsers = {}
    /\ remoteIndexed = {}
    /\ created = 0
    /\ apiKey = ServerKey
    /\ clock = 0
    /\ norm = NormIdle
    /\ proxyCall = NoCall

\* signIn(email, password): the password is not looked at
AuthSignIn ==
    /\ \E raw \in AuthEmails :
         /\ session' = signIn(raw, clock)
         /\ authOp' = [op |-> "signIn", email |-> raw, at |-> clock]
    /\ UNCHANGED << portalVars, envVars >>

AuthSignOut ==
    /\ session' = signOut
    /\ authOp' = [op |-> "signOut", email |-> <<>>, at |-> 0]
    /\ UNCHANGED << portalVars, envVars >>

\* an hour passes
Tick ==
    /\ clock < MaxClock
    /\ clock' = clock + 1
    /\ UNCHANGED << session, authOp, portalVars, apiKey, norm, proxyCall >>

AuthNext ==
    \/ AuthSignIn
    \/ AuthSignOut
    \/ Tick

AuthSpec == AuthInit /\ [][AuthNext]_vars

\* --------------------------------------- the email normalization alone
\* One typed email x and a second email y that differs from x in letter case
\* only; x goes the way of a lookup: signIn stores it, findPatientByEmail
\* normalizes the stored email, the GET route normalizes what it receives.
MaxLen == 3
Chars == { "a", "A", "b", "B", " " }

Strings(n) == UNION { [1..k -> Chars] : k \in 0..n }

\* the strings that differ from s in letter case only
CaseVariants(s) ==
    { t \in [DOMAIN s -> Chars] :
        \A i \in DOMAIN s :
            \/ t[i] = s[i]
            \/ { t[i], s[i] } \in { { "a", "A" }, { "b", "B" } } }

NormInit ==
    /\ InitPages
    /\ remoteUsers = {}
    /\ remoteIndexed = {}
    /\ created = 0
    /\ apiKey = ServerKey
    /\ clock = 0
    /\ proxyCall = NoCall
    /\ \E x \in Strings(MaxLen) : \E y \in CaseVariants(x) :
         norm = [NormIdle EXCEPT !.pc = "typed", !.x = x, !.y = y]

NormalizeTyped ==
    /\ norm.pc = "typed"
    /\ norm' = [norm EXCEPT
                  !.pc = "done",
                  !.stored = signIn(norm.x, clock).email,
                  !.client = NormalizeEmail(signIn(norm.x, clock).email),
                  !.proxy = LookupVariables(
                               NormalizeEmail(signIn(norm.x, clock).email)).email,
                  !.other = NormalizeEmail(norm.y)]
    /\ UNCHANGED << session, authOp, portalVars, apiKey, clock, proxyCall >>

NormNext == NormalizeTyped

NormSpec == NormInit /\ [][NormNext]_vars

\* ------------------------------------------- the proxy endpoints alone
\* Any HTTP client calls the proxy endpoints, one request at a time; the
\* remote API answers the request a handler makes, or never does.
ProxyEmails == { <<>>, <<"A">>, <<"b">> }

\* a well-formed body, and one for each required field left out
ProxyCreateBodies ==
    LET full == CreateInput(<<"b">>, DemoData)
    IN { full,
         [full EXCEPT !.email = <<>>],
         [full EXCEPT !.password = ""],
         [full EXCEPT !.firstName = ""],
         [full EXCEPT !.lastName = ""] }

\* id 0: no id in the body; demographics Null: no demographics in the body
ProxyUpdateBodies ==
    { [id |-> i, demographics |-> d] :
        i \in { 0, 101 }, d \in { Null, DemographicsOf(DemoData) } }
ProxyPatientIds == { 0, 101 }

\* a remote outcome for a handler that answers without calling fetch()
NoAnswer == [kind |-> "netfail"]

\* the remote's answers to the test route's currentUser query
TestOutcomes ==
    RemoteFailures \cup { [kind |-> "data", data |-> [currentUser |-> Null]] }

ProxyInit ==
    /\ InitPages
    /\ remoteUsers \in SUBSET UserPool
    /\ remoteIndexed = { u.id : u \in remoteUsers }
    /\ created = 0
    /\ apiKey \in ApiKeys
    /\ clock = 0
    /\ norm = NormIdle
    /\ proxyCall = NoCall

pageVars ==
    << session, route, hubVars, subVars, lastLookup, authOp, apiKey, clock,
       norm >>

\* A patient handler has returned or is awaiting fetch(): it returns at once
\* when it rejects the request (400) or when makeGraphQLRequest throws
\* before fetch(); replyNow is the handler's response in those cases.
Received(endpoint, input, replyNow) ==
    IF replyNow.status = 400
    THEN [pc |-> "answered", endpoint |-> endpoint, input |-> input,
          fetched |-> FALSE, hung |-> FALSE, res |-> Null, log |-> <<>>,
          reply |-> replyNow]
    ELSE IF ~makeGraphQLRequest(NoAnswer).fetched
    THEN [pc |-> "answered", endpoint |-> endpoint, input |-> input,
          fetched |-> FALSE, hung |-> FALSE, res |-> Null,
          log |-> makeGraphQLRequest(NoAnswer).log, reply |-> replyNow]
    ELSE [pc |-> "waiting", endpoint |-> endpoint, input |-> input,
          fetched |-> TRUE, hung |-> FALSE, res |-> Null,
          log |-> makeGraphQLRequest(NoAnswer).log, reply |-> Null]

\* GET /api/healthie/patient up to its await
ProxyLookupReceive ==
    /\ proxyCall.pc \in { "idle", "answered" }
    /\ \E email \in ProxyEmails :
         proxyCall' = Received("lookup", email, ProxyGET(email, NoAnswer))
    /\ UNCHANGED << pageVars, remoteVars >>

\* POST /api/healthie/patient up to its await
ProxyCreateReceive ==
    /\ proxyCall.pc \in { "idle", "answered" }
    /\ \E body \in ProxyCreateBodies :
         proxyCall' = Received("create", body, ProxyPOST(body, NoAnswer))
    /\ UNCHANGED << pageVars, remoteVars >>

\* PATCH /api/healthie/patient up to its await
ProxyUpdateReceive ==
    /\ proxyCall.pc \in { "idle", "answered" }
    /\ \E body \in ProxyUpdateBodies :
         proxyCall' = Received("update", body, ProxyPATCH(body, NoAnswer))
    /\ UNCHANGED << pageVars, remoteVars >>

\* GET /api/healthie/forms: it never awaits the remote API
ProxyFormsRequest ==
    /\ proxyCall.pc \in { "idle", "answered" }
    /\ \E id \in ProxyPatientIds :
         proxyCall' = [pc |-> "answered", endpoint |-> "forms", input |-> id,
                       fetched |-> FALSE, hung |-> FALSE, res |-> Null,
                       log |-> <<>>, reply |-> ProxyFormsGET(id)]
    /\ UNCHANGED << pageVars, remoteVars >>

\* GET /api/healthie/appointments: it never awaits the remote API
ProxyAppointmentsRequest ==
    /\ proxyCall.pc \in { "idle", "answered" }
    /\ \E id \in ProxyPatientIds :
         proxyCall' = [pc |-> "answered", endpoint |-> "appointments",
                       input |-> id, fetched |-> FALSE, hung |-> FALSE,
                       res |-> Null, log |-> <<>>,
                       reply |-> ProxyAppointmentsGET(id)]
    /\ UNCHANGED << pageVars, remoteVars >>

\* GET of the test route up to its await: without a key it answers at once
ProxyTestReceive ==
    /\ proxyCall.pc \in { "idle", "answered" }
    /\ proxyCall' =
         IF apiKey = <<>>
         THEN [pc |-> "answered", endpoint |-> "test", input |-> Null,
               fetched |-> FALSE, hung |-> FALSE, res |-> Null,
               log |-> TestLog, reply |-> TestGET(NoAnswer)]
         ELSE [pc |-> "waiting", endpoint |-> "test", input |-> Null,
               fetched |-> TRUE, hung |-> FALSE, res |-> Null,
               log |-> TestLog, reply |-> Null]
    /\ UNCHANGED << pageVars, remoteVars >>

\* the remote API will never answer the request that is waiting
RemoteHangs ==
    /\ proxyCall.pc = "waiting"
    /\ ~proxyCall.hung
    /\ proxyCall' = [proxyCall EXCEPT !.hung = TRUE]
    /\ UNCHANGED << pageVars, remoteVars >>

\* GET from the outcome of its fetch() to its response
ProxyLookupAnswered ==
    /\ proxyCall.pc = "waiting"
    /\ proxyCall.endpoint = "lookup"
    /\ ~proxyCall.hung
    /\ \E res \in SearchOutcomes :
         proxyCall' = [proxyCall EXCEPT
                         !.pc = "answered",
                         !.res = res,
                         !.reply = ProxyGET(proxyCall.input, res)]
    /\ UNCHANGED << pageVars, remoteVars >>

\* POST from the outcome of its fetch() to its response
ProxyCreateAnswered ==
    /\ proxyCall.pc = "waiting"
    /\ proxyCall.endpoint = "create"
    /\ ~proxyCall.hung
    /\ \E res \in CreateOutcomes(CreateVariables(proxyCall.input)),
          persisted \in BOOLEAN :
         /\ CreateEffect([reached |-> TRUE, res |-> res], persisted)
         /\ proxyCall' = [proxyCall EXCEPT
                            !.pc = "answered",
                            !.res = res,
                            !.reply = ProxyPOST(proxyCall.input, res)]
    /\ UNCHANGED pageVars

\* PATCH from the outcome of its fetch() to its response
ProxyUpdateAnswered ==
    /\ proxyCall.pc = "waiting"
    /\ proxyCall.endpoint = "update"
    /\ ~proxyCall.hung
    /\ \E res \in UpdateOutcomes(UpdateVariables(proxyCall.input)) :
         proxyCall' = [proxyCall EXCEPT
                         !.pc = "answered",
                         !.res = res,
                         !.reply = ProxyPATCH(proxyCall.input, res)]
    /\ UNCHANGED << pageVars, remoteVars >>

\* the test route from the outcome of its fetch() to its response
ProxyTestAnswered ==
    /\ proxyCall.pc = "waiting"
    /\ proxyCall.endpoint = "test"
    /\ ~proxyCall.hung
    /\ \E res \in TestOutcomes :
         proxyCall' = [proxyCall EXCEPT
                         !.pc = "answered",
                         !.res = res,
                         !.reply = TestGET(res)]
    /\ UNCHANGED << pageVars, remoteVars >>

\* the handler that is waiting returns a response
ProxyAnswers ==
    \/ ProxyLookupAnswered
    \/ ProxyCreateAnswered
    \/ ProxyUpdateAnswered
    \/ ProxyTestAnswered

ProxyNext ==
    \/ ProxyLookupReceive
    \/ ProxyCreateReceive
    \/ ProxyUpdateReceive
    \/ ProxyFormsRequest
    \/ ProxyAppointmentsRequest
    \/ ProxyTestReceive
    \/ RemoteHangs
    \/ ProxyLookupAnswered
    \/ ProxyCreateAnswered
    \/ ProxyUpdateAnswered
    \/ ProxyTestAnswered

ProxySpec == ProxyInit /\ [][ProxyNext]_vars

\* ============================================================ properties
\* how a reply to the lookup fetch reads: a patient, a genuine no-match
\* (200 with patient null), or a failure (no response or a non-2xx status)
ReplyHasPatient(reply) ==
    /\ reply # Null
    /\ reply # FetchRejected
    /\ ResponseOk(reply)
    /\ reply.body.patient # Null

ReplyNoMatch(reply) ==
    /\ reply # Null
    /\ reply # FetchRejected
    /\ ResponseOk(reply)
    /\ reply.body.patient = Null

ReplyIsError(reply) ==
    /\ reply # Null
    /\ (reply = FetchRejected \/ ~ResponseOk(reply))

\* the lookup of the hub on screen has just been answered in this step
HubLookupAnswered ==
    route = "hub" /\ hubPc = "lookup" /\ hubPc' \in { "fetch", "done" }

\* C1: for an authenticated session, a lookup answered with a Patient ends
\* on the Dashboard showing that patient, a lookup answered with a genuine
\* no-match sends the user to the demographics form, and the Dashboard is
\* never rendered without a Patient returned by the lookup.
C1_ResolutionGate ==
    /\ [](/\ (route = "hub" /\ HubView = "dashboard")
               => /\ session # Null
                  /\ ReplyHasPatient(hubReply)
                  /\ hubPatient = hubReply.body.patient
          /\ (route = "hub" /\ hubPc = "done" /\ session # Null
                 /\ ReplyHasPatient(hubReply))
               => /\ HubView = "dashboard"
                  /\ hubPatient.firstName = hubReply.body.patient.firstName)
    /\ [][(HubLookupAnswered /\ ReplyNoMatch(hubReply'))
            => route' = "demographics"]_vars
    /\ [][(HubLookupAnswered /\ ReplyHasPatient(hubReply'))
            => (route' = "hub" /\ hubPatient' = hubReply'.body.patient)]_vars

\* C1 witness: the dashboard of an existing patient is on screen
C1_Witness ==
    /\ route = "hub"
    /\ HubView = "dashboard"
    /\ hubPatient.firstName = "Jane"

\* C2: a hub lookup that ended in an error leaves the user on the hub with
\* the retry view; the error never moves the user to the demographics form
\* or the dashboard.
C2_ErrorStaysResolving ==
    (hubPc = "done" /\ ReplyIsError(hubReply))
        => (route = "hub" /\ HubView = "error")

\* C3: a lookup whose fetch failed or was answered with a non-2xx status is
\* never reported to its caller as null.
C3_FailureNeverNull ==
    (lastLookup # Null /\ ReplyIsError(lastLookup.reply))
        => lastLookup.returned # Null

\* case-insensitive equality of a candidate's email with the normalized query
EmailMatches(user, email) ==
    user.email # NullStr /\ ToLower(user.email) = NormalizeEmail(email)

\* the positions of the matching candidates of a lookup
Matches(lookup) ==
    LET users == lookup.net.res.data.users
    IN { i \in DOMAIN users : EmailMatches(users[i], lookup.email) }

\* C4: whatever candidate list the remote search answers, the lookup returns
\* null when no candidate matches, the matching candidate when exactly one
\* matches, and never a candidate that does not match.
C4_ExactMatchOnly ==
    (lastLookup # Null /\ lastLookup.net.reached
     /\ lastLookup.net.res.kind = "data")
        => /\ Matches(lastLookup) = {} => lastLookup.returned = Null
           /\ \A i \in Matches(lastLookup) :
                Cardinality(Matches(lastLookup)) = 1
                  => lastLookup.returned =
                       PatientOfUser(lastLookup.net.res.data.users[i])
           /\ lastLookup.returned # Null
                => EmailMatches(lastLookup.returned, lastLookup.email)

\* the remote answered a mutation with a non-empty messages list
HasMessages(net, mutation) ==
    /\ net # Null
    /\ net.reached
    /\ net.res.kind = "data"
    /\ net.res.data[mutation].messages # <<>>

\* the remote answered a mutation with a user record
HasUser(net, mutation) ==
    /\ net # Null
    /\ net.reached
    /\ net.res.kind = "data"
    /\ net.res.data[mutation].user # Null

\* a reply that carries no patient id or record, and is not a success
ReportsFailure(reply) ==
    /\ reply # FetchRejected
    /\ ~ResponseOk(reply)
    /\ DOMAIN reply.body \cap { "id", "firstName", "email", "patient" } = {}

CreateSucceeded == run.create # Null /\ ResponseOk(run.create)

\* the create call of the run failed
CreateFailed == run.create # Null /\ ~ResponseOk(run.create)

\* C6: when create succeeded and the lookup right after it is answered with
\* a genuine no-match, the run does not show a failure to the user.
C6_NullAfterCreateIsNoFailure ==
    (run.ended /\ CreateSucceeded /\ ReplyNoMatch(run.lookup2))
        => subError = NoError

\* attempts the documented verification makes before giving up
VerifyAttempts == 3

\* C7: a run that gave up verifying a successful create has looked the
\* patient up VerifyAttempts times; one null answer does not end it.
C7_VerificationRetries ==
    (run.ended /\ CreateSucceeded /\ run.update = Null)
        => run.postCreateLookups = VerifyAttempts

\* C8: an update call is outstanding or was made only if the first lookup
\* of the run found the patient or the create call of the run succeeded;
\* after a failed create the run makes no update call.
C8_UpdateOnlyForKnownPatient ==
    /\ (subPc = "update" \/ run.update # Null)
         => (ReplyHasPatient(run.lookup1) \/ CreateSucceeded)
    /\ CreateFailed => (subPc # "update" /\ run.update = Null)

\* C8 witness: the update call is outstanding after a successful create
C8_Witness == subPc = "update" /\ CreateSucceeded

\* C9: a failed create ends the run with the error shown and the form
\* enabled again, without navigating to the hub and without a patient id
\* being used afterwards.
C9_CreateFailureEndsRun ==
    CreateFailed
        => /\ run.ended
           /\ subPc = "idle"
           /\ subError = SubmitErrorMsg
           /\ ~subLoading
           /\ ~run.navigated
           /\ run.lookup2 = Null
           /\ run.update = Null
           /\ run.updateId = 0
           /\ subPatient = Null

\* C9 witness: the remote answered the create call with an HTTP error
C9_Witness ==
    /\ CreateFailed
    /\ run.createNet.reached
    /\ run.createNet.res.kind = "http"
    /\ route = "demographics"

\* C10: the hub opened by a successful submission does not send the user
\* back to the demographics form unless its lookup was answered with a
\* genuine no-match.
C10_HubAfterSubmit ==
    (hubOrigin = "submit" /\ hubPc = "done" /\ hubReply # Null
     /\ ~ReplyNoMatch(hubReply))
        => route # "demographics"

\* an email in normalized form: no upper-case letter, no blank at either end
IsNormalized(e) ==
    /\ \A i \in DOMAIN e : e[i] \notin { "A", "B" }
    /\ e # <<>> => (e[1] # " " /\ e[Len(e)] # " ")

\* C11: the email stored in the session and every email sent to the remote
\* API in a lookup or a create call is lower-cased and trimmed, whatever was
\* typed at login.
C11_EmailsNormalized ==
    /\ session # Null => IsNormalized(session.email)
    /\ (lastLookup # Null /\ lastLookup.sent # Null)
         => IsNormalized(lastLookup.sent.email)
    /\ run.createSent # Null => IsNormalized(run.createSent.email)

\* C11 witness: "b " was typed at login and has been sent in a lookup and in
\* a create call
C11_Witness ==
    /\ session # Null
    /\ lastLookup # Null
    /\ lastLookup.sent # Null
    /\ lastLookup.sent.email = <<"b">>
    /\ run.createSent # Null
    /\ run.createSent.email = <<"b">>

\* C12: normalizing an email that is already normalized changes nothing
\* (what signIn stored is what findPatientByEmail and the GET route compute
\* from it), and two emails that differ only in letter case normalize to the
\* same value.
C12_NormalizeIdempotent ==
    norm.pc = "done" =>
        /\ norm.client = norm.stored
        /\ norm.proxy = norm.stored
        /\ norm.other = norm.stored
        /\ IsNormalized(norm.stored)

\* C12 witness: an email with blanks and upper case met its lower-case twin
C12_Witness ==
    /\ norm.pc = "done"
    /\ norm.x = << " ", "A", " " >>
    /\ norm.y = << " ", "a", " " >>
    /\ norm.stored = << "a" >>

\* C13: a session whose expiresAt lies in the past is not authenticated and
\* exposes no email.
C13_ExpiredIsUnauthenticated ==
    (session # Null /\ session.expiresAt < clock) =>
        (~IsAuthenticated /\ SessionEmail = <<>>)

C15_NoSessionRedirects ==
    session = Null =>
        /\ route \notin { "demographics", "forms", "schedule" }
        /\ route = "hub" => hubPc = "mounted"
        /\ hubPc \notin { "lookup", "fetch" }
        /\ subPc = "idle"

\* C16: when the answer to the hub's lookup arrives after the hub was left,
\* it is discarded: it triggers no navigation.
C16_StaleResponseDiscarded ==
    [][ (route # "hub" /\ hubPc = "lookup" /\ hubPc' \in { "fetch", "done" })
            => route' = route ]_vars

\* C17: onSubmit has at most one network call outstanding; its calls follow
\* one another (lookup, create, second lookup, update), and a submission
\* starts only when none is in progress.
C17_OneCallAtATime ==
    /\ [](/\ run.outstanding <= 1
          /\ subPc # "idle" => (subLoading /\ run.outstanding = 1)
          /\ subPc = "idle" => run.outstanding = 0)
    /\ [][/\ (subPc' = "lookup1" /\ run' # run)
               => (subPc = "idle" /\ ~subLoading)
          /\ (subPc' = "create" /\ subPc # "create") => subPc = "lookup1"
          /\ (subPc' = "lookup2" /\ subPc # "lookup2") => subPc = "create"
          /\ (subPc' = "update" /\ subPc # "update")
               => subPc \in { "lookup1", "lookup2" }]_vars

\* C17 witness: the update call is outstanding after the lookup, the create
\* and the second lookup were answered
C17_Witness ==
    /\ subPc = "update"
    /\ run.lookup1 # Null
    /\ run.create # Null
    /\ run.lookup2 # Null
    /\ run.outstanding = 1

\* C18: the forms fetch and the appointments fetch are outstanding together;
\* whichever settles first, the page keeps loading until the other has, and
\* then shows both results, not loading, without error.
C18_FetchOrderIrrelevant ==
    /\ [](/\ (hubPc = "fetch" /\ route = "hub") => hubLoading
          /\ (hubPc = "done" /\ hubPatient # Null)
               => /\ hubForms = Resolved(getFormsForPatient(hubPatient.id))
                  /\ hubAppts
                       = Resolved(getUpcomingAppointments(hubPatient.id))
                  /\ ~hubLoading
                  /\ hubError = NoError)
    /\ [][(hubPc = "lookup" /\ hubPc' = "fetch")
            => (hubForms' = Pending /\ hubAppts' = Pending)]_vars
    /\ [][(hubPc = "fetch" /\ hubPc' = "done")
            => (hubForms'.settled /\ hubAppts'.settled)]_vars

\* C18 witness: the appointments fetch has settled first and the page is
\* still waiting for the forms fetch
C18_Witness ==
    /\ route = "hub"
    /\ hubPc = "fetch"
    /\ hubAppts.settled
    /\ ~hubForms.settled
    /\ hubLoading

\* C19: a proxy request whose remote call is never answered does not stay
\* pending: its handler can still return (the call is aborted by the
\* request timeout and an error is answered).
C19_RemoteCallBounded ==
    (proxyCall.pc = "waiting" /\ proxyCall.hung) => ENABLED ProxyAnswers

\* C20: without an API key no endpoint sends a request to the remote API,
\* and every endpoint answers with an error body and a non-2xx status.
C20_NoKeyNoRemoteCall ==
    apiKey = <<>> =>
        /\ proxyCall.pc # "waiting"
        /\ ~proxyCall.fetched
        /\ created = 0
        /\ proxyCall.pc = "answered" =>
              /\ proxyCall.reply.status \notin 200..299
              /\ "error" \in DOMAIN proxyCall.reply.body

\* C20 witness: without a key, a well-formed create request was answered 500
C20_Witness ==
    /\ apiKey = <<>>
    /\ proxyCall.pc = "answered"
    /\ proxyCall.endpoint = "create"
    /\ proxyCall.reply.status = 500

\* ------------------------------------------ the proxy's responses and logs
\* the key of the success envelope of a proxy endpoint
ResourceKey(endpoint) ==
    IF endpoint \in { "lookup", "create", "update" } THEN "patient"
    ELSE endpoint

\* C21: a proxy endpoint answers either 2xx with a body keyed by the
\* resource name and no error member, or non-2xx with a body {error}.
C21_EnvelopeByStatus ==
    (proxyCall.pc = "answered" /\ proxyCall.endpoint # "test") =>
        LET reply == proxyCall.reply
        IN /\ ResponseOk(reply) =>
                /\ ResourceKey(proxyCall.endpoint) \in DOMAIN reply.body
                /\ "error" \notin DOMAIN reply.body
           /\ ~ResponseOk(reply) => DOMAIN reply.body = { "error" }

\* the text of a patient object in a response body
PatientText(patient) ==
    IF patient = Null THEN <<>> ELSE patient.email \o << patient.firstName >>

\* the text a response body carries
ResponseText(reply) ==
    IF "error" \in DOMAIN reply.body THEN reply.body.error
    ELSE IF "patient" \in DOMAIN reply.body
    THEN PatientText(reply.body.patient)
    ELSE IF "email" \in DOMAIN reply.body THEN PatientText(reply.body)
    ELSE <<>>

\* part occurs in text
Occurs(part, text) ==
    \E k \in 0..(Len(text) - Len(part)) :
        SubSeq(text, k + 1, k + Len(part)) = part

\* the non-empty parts of the API key, and its non-empty prefixes
KeyParts ==
    { SubSeq(apiKey, i, j) : i \in 1..Len(apiKey), j \in 1..Len(apiKey) }
        \ { <<>> }
KeyPrefixes == { SubSeq(apiKey, 1, n) : n \in 1..Len(apiKey) }

\* C23: no response body of a proxy route or of the test route contains the
\* API key or a part of it, on success or on failure (the remote's own
\* error text is taken not to repeat the credentials it was sent).
C23_NoKeyInResponse ==
    proxyCall.pc = "answered" =>
        \A part \in KeyParts : ~Occurs(part, ResponseText(proxyCall.reply))

\* C23 witness: with a key, the test route answered with the remote's error
\* text in its body
C23_Witness ==
    /\ apiKey = ServerKey
    /\ proxyCall.pc = "answered"
    /\ proxyCall.endpoint = "test"
    /\ proxyCall.res = [kind |-> "http"]
    /\ proxyCall.reply.status = 500

\* C24: no line the server logs while handling a remote call contains the
\* API key or a prefix of it.
C24_NoKeyInLog ==
    \A i \in DOMAIN proxyCall.log :
        \A prefix \in KeyPrefixes : ~Occurs(prefix, proxyCall.log[i].text)

\* C28: when the remote's candidate list holds a record whose email equals
\* the normalized query, the lookup answers 200 with that patient, whatever
\* the other candidates are and wherever they stand.
C28_MatchDecidesLookup ==
    (/\ proxyCall.pc = "answered"
     /\ proxyCall.endpoint = "lookup"
     /\ proxyCall.res # Null
     /\ proxyCall.res.kind = "data") =>
        LET users == proxyCall.res.data.users
        IN \A i \in DOMAIN users :
             EmailMatches(users[i], proxyCall.input) =>
                proxyCall.reply
                    = [status |-> 200,
                       body |-> [patient |-> PatientOfUser(users[i])]]

\* the request that was received lacks a required input
MissingInput ==
    \/ proxyCall.endpoint = "lookup" /\ proxyCall.input = <<>>
    \/ /\ proxyCall.endpoint = "create"
       /\ \/ proxyCall.input.email = <<>>
          \/ proxyCall.input.password = ""
          \/ proxyCall.input.firstName = ""
          \/ proxyCall.input.lastName = ""
    \/ /\ proxyCall.endpoint = "update"
       /\ (proxyCall.input.id = 0 \/ proxyCall.input.demographics = Null)
    \/ /\ proxyCall.endpoint \in { "forms", "appointments" }
       /\ proxyCall.input = 0

\* C30: a request that lacks a required input is answered 400 with an error
\* body and no request is sent to the remote API for it.
C30_MissingInputRejected ==
    (proxyCall.pc # "idle" /\ MissingInput) =>
        /\ proxyCall.pc = "answered"
        /\ proxyCall.reply.status = 400
        /\ "error" \in DOMAIN proxyCall.reply.body
        /\ ~proxyCall.fetched
        /\ proxyCall.res = Null

\* C30 witness: with a key, a PATCH that has an id and no demographics was
\* answered 400 without a remote call
C30_Witness ==
    /\ apiKey = ServerKey
    /\ proxyCall.pc = "answered"
    /\ proxyCall.endpoint = "update"
    /\ proxyCall.input.id = 101
    /\ proxyCall.input.demographics = Null
    /\ proxyCall.reply.status = 400
    /\ ~proxyCall.fetched

\* ------------------------------------------- the onboarding submit flow
\* what the form layer holds after a failed create: the error createPatient
\* threw into onSubmit's catch block and the error state the form renders
FormReceives ==
    createPatient(CreateInput(SessionEmail, DemoData), run.createNet).error
        \o << subError >>

\* C22: when the remote reports field-level messages for a create, the
\* demographics form has, for each message, the failing field name and its
\* message, not just a generic failure.
C22_FieldErrorsReachForm ==
    (/\ route = "demographics"
     /\ run.ended
     /\ HasMessages(run.createNet, "createClient")) =>
        \A i \in DOMAIN run.createNet.res.data.createClient.messages :
            LET msg == run.createNet.res.data.createClient.messages[i]
            IN /\ Occurs(<< msg.field >>, FormReceives)
               /\ Occurs(<< msg.message >>, FormReceives)

\* C25: a submission retried after a run whose create succeeded and whose
\* update failed issues no create call; it goes from the lookup to the update.
C25_RetryIssuesNoCreate ==
    run.retry => (subPc # "create" /\ run.createNet = Null)

\* C26: a create is sent only after a first lookup that succeeded and
\* established that no patient has the session email; none is sent after a
\* lookup that failed.
C26_CreateOnlyAfterNoMatch ==
    (subPc = "create" \/ run.createNet # Null) => ReplyNoMatch(run.lookup1)

\* the demographic values the form passed to updatePatientDemographics
SubmittedValues ==
    LET data == DemographicsOf(DemoData)
    IN { data.dob, data.sexAtBirth, data.insurance.provider,
         data.insurance.memberId }

\* the demographic values of the update mutation the proxy sent for the run
SentValues ==
    LET input == UpdateVariables([id |-> run.updateId,
                                  demographics |-> DemographicsOf(DemoData)])
    IN { input[f] : f \in DOMAIN input \ { "id" } }

\* C27: when the run ends in navigation to the hub, every demographic value
\* passed to updatePatientDemographics was sent in the update mutation.
C27_NoFieldDropped ==
    run.navigated => SubmittedValues \subseteq SentValues

\* C29: a run of onSubmit does not stay at an await: from every call it is
\* waiting on it goes on, and it ends with isLoading false, either at the
\* hub after a successful update or with an error shown and no navigation.
C29_SubmitTerminates ==
    /\ (route = "demographics" /\ subPc # "idle") => ENABLED SubmitAnswers
    /\ (route = "demographics" /\ run.ended) => (~subLoading /\ subError # NoError)
    /\ run.navigated => (run.update # Null /\ ResponseOk(run.update))

====
